---- MODULE Spec2Model ----
(***************************************************************************)
(* A model of jrnl's date-expression resolution (src/src/jrnl/journal.py   *)
(* and src/src/jrnl/helpers.py).                                           *)
(*                                                                         *)
(* Dates are day ordinals (integers); the difference of two dates is the   *)
(* difference of the ordinals, as datetime.date subtraction computes it.   *)
(* Strings are sequences of one-character strings.  Python positions are   *)
(* 0-based, sequence positions here are 1-based: Python's s[k] is s[k+1].  *)
(***************************************************************************)
EXTENDS Integers, Sequences, FiniteSets, TLC

VARIABLES
    date_list,      \* find_closest_date: the sorted list it is called with
    target_date,    \* find_closest_date: the target date
    closest,        \* find_closest_date: the outcome of the call
    oa_input,       \* parse_ancestor_offsets: the date_arg it was called with
    oa_date_arg,    \* parse_ancestor_offsets: the local date_arg
    oa_offset,      \* parse_ancestor_offsets: the local offset
    oa_result,      \* parse_ancestor_offsets: the outcome of the call
    journal,        \* the journal's base directory: child name -> content
    today,          \* datetime.date.today()
    late_night_date_offset,     \* parse_dates: the argument, in days
    args_done,      \* parse_dates: how many of the date_args the loop has taken
    original_date_string,   \* parse_dates: the argument of the latest pass
    locals,         \* parse_dates: what the latest pass computed on its way
    parsed_dates,   \* parse_dates: the local parsed_dates
    stderr,         \* the lines printed to sys.stderr
    pd_result,      \* parse_dates: the outcome of the call
    anc_date,       \* find_entrys_nth_ancestor: the argument date
    anc_n,          \* find_entrys_nth_ancestor: the argument n
    anc_result,     \* find_entrys_nth_ancestor: the outcome of the call
    entry_file,     \* write_timestamp: what is at entry_path
    ts_initial,     \* write_timestamp: what was at entry_path before the calls
    ts_log,         \* write_timestamp: the this_datetime of every call so far
    runtime_args,   \* main: the dates and the timestamp flags of the command line
    config_dict,    \* main: the settings of the config file
    clock,          \* main: the wall clock, what datetime.datetime.today() returns
    load_time,      \* main: the clock when the journal module was imported
    tree,           \* main: what is at each path below journal_path
    pc,             \* main: where the run is
    main_dates,     \* main: the local dates
    opened,         \* main: how many dates its last for loop has passed
    events,         \* main: the calls out of open_entry, in order
    error_stream,   \* main: the lines printed to sys.stderr
    exit_status,    \* main: how the process ended
    root,           \* get_all_entry_dates: what is at journal_path
    index_result    \* get_all_entry_dates: the outcome of the call

closest_vars == <<date_list, target_date, closest>>

oa_vars == <<oa_input, oa_date_arg, oa_offset, oa_result>>

env_vars == <<journal, today>>

pd_vars == <<late_night_date_offset, args_done, original_date_string, locals,
             parsed_dates, stderr, pd_result>>

anc_vars == <<anc_date, anc_n, anc_result>>

ts_vars == <<entry_file, ts_initial, ts_log>>

main_vars == <<runtime_args, config_dict, clock, load_time, tree, pc, main_dates,
               opened, events, error_stream, exit_status>>

idx_vars == <<root, index_result>>

vars == <<closest_vars, oa_vars, env_vars, pd_vars, anc_vars, ts_vars, main_vars,
          idx_vars>>

\* The outcome of a call: not made yet, returned a value, or raised.
Pending == [kind |-> "pending"]
Returned(v) == [kind |-> "return", val |-> v]
Raised(e) == [kind |-> "raise", exc |-> e]

(***************************************************************************)
(* Bounds                                                                  *)
(***************************************************************************)
MaxListLen == 3     \* longest date list handed to find_closest_date
MaxListDate == 10   \* the dates of those lists are the ordinals 0..MaxListDate
MaxArgLen == 5      \* longest string handed to parse_ancestor_offsets on its own
DaysPerYear == 2    \* days of a year, from 1 January on, that can have an entry
NumYears == 2       \* years, from 2020 on, that can have an entry
MaxEntries == 3     \* most entry files in a journal
MaxArgs == 2        \* most date arguments in one parse_dates call
MaxTextLen == 3     \* longest text other than a date in a file before the calls
MaxCalls == 3       \* most write_timestamp calls on one file
MaxFiles == 2       \* most files below the children of a scanned journal_path

(***************************************************************************)
(* Generic helpers                                                         *)
(***************************************************************************)
Abs(x) == IF x < 0 THEN 0 - x ELSE x

Range(s) == {s[k] : k \in DOMAIN s}

IsAscending(s) == \A k \in 1..(Len(s) - 1) : s[k] <= s[k + 1]

IsStrictlyAscending(s) == \A k \in 1..(Len(s) - 1) : s[k] < s[k + 1]

\* s[:k] and s[k:] for 0 <= k <= len(s), and s[:-k] for k >= 1
Take(s, k) == SubSeq(s, 1, k)
Drop(s, k) == SubSeq(s, k + 1, Len(s))
DropLast(s, k) == SubSeq(s, 1, Len(s) - k)

(***************************************************************************)
(* Characters and integer literals                                         *)
(***************************************************************************)
Digits == {"0", "1", "2", "3", "4", "5", "6", "7", "8", "9"}

DigitVal(c) ==
    CASE c = "0" -> 0 [] c = "1" -> 1 [] c = "2" -> 2 [] c = "3" -> 3
      [] c = "4" -> 4 [] c = "5" -> 5 [] c = "6" -> 6 [] c = "7" -> 7
      [] c = "8" -> 8 [] c = "9" -> 9

AllDigits(s) == \A k \in DOMAIN s : s[k] \in Digits

RECURSIVE DecimalVal(_)
DecimalVal(s) ==
    IF s = <<>> THEN 0
    ELSE 10 * DecimalVal(DropLast(s, 1)) + DigitVal(s[Len(s)])

\* the strings -?\d* (what the group of tilde_pattern can capture)
IsSignedDigits(s) ==
    IF s # <<>> /\ s[1] = "-" THEN AllDigits(Drop(s, 1)) ELSE AllDigits(s)

\* the strings -?\d+ : the decimal integer literals
IsIntLiteral(s) ==
    IF s # <<>> /\ s[1] = "-"
    THEN Len(s) >= 2 /\ AllDigits(Drop(s, 1))
    ELSE Len(s) >= 1 /\ AllDigits(s)

IntLiteralVal(s) ==
    IF s[1] = "-" THEN 0 - DecimalVal(Drop(s, 1)) ELSE DecimalVal(s)

(***************************************************************************)
(* journal.py: parse_ancestor_offsets                                      *)
(***************************************************************************)
NL == "\n"

HasTilde(s) == \E k \in DOMAIN s : s[k] = "~"

LastTilde(s) == CHOOSE k \in DOMAIN s : s[k] = "~" /\ \A j \in DOMAIN s : s[j] = "~" => j <= k

\* The text after the last "~", without one newline at the very end: "$"
\* also matches just before a final newline.
TildeTail(s) ==
    LET tail == Drop(s, LastTilde(s))
    IN  IF tail # <<>> /\ tail[Len(tail)] = NL THEN DropLast(tail, 1) ELSE tail

\* re.match(r".*~(-?\d*)$", s) succeeds.  ".*" is greedy and "-?\d*" holds no
\* "~", so the "~" of the pattern can only be the last one; "." matches no
\* newline, so no newline may precede it.
TildeMatches(s) ==
    /\ HasTilde(s)
    /\ \A k \in 1..(LastTilde(s) - 1) : s[k] # NL
    /\ IsSignedDigits(TildeTail(s))

\* regex_match.group(1)
TildeGroup(s) == TildeTail(s)

EndsWithCaret(s) == s # <<>> /\ s[Len(s)] = "^"

\* mutant of OffsetsIteration: the "~" is left on the string
OffsetsIteration_tilde_kept(arg, offset) ==
    IF EndsWithCaret(arg)
    THEN [kind |-> "continue", date_arg |-> DropLast(arg, 1), offset |-> offset + 1]
    ELSE IF TildeMatches(arg) /\ TildeGroup(arg) # <<>>
    THEN IF IsIntLiteral(TildeGroup(arg))
         THEN [kind |-> "continue",
               date_arg |-> DropLast(arg, Len(TildeGroup(arg))),
               offset |-> offset + IntLiteralVal(TildeGroup(arg))]
         ELSE Raised("ValueError")
    ELSE Returned(<<arg, offset>>)

\* One pass through the body of the "while True" loop: what it does to
\* date_arg and offset ("continue"), or how it leaves the function.
\* int(offset_str) raises ValueError when the group is a lone "-".
OffsetsIteration(arg, offset) ==
    IF EndsWithCaret(arg)
    THEN [kind |-> "continue", date_arg |-> DropLast(arg, 1), offset |-> offset + 1]
    ELSE IF TildeMatches(arg) /\ TildeGroup(arg) # <<>>
    THEN IF IsIntLiteral(TildeGroup(arg))
         THEN [kind |-> "continue",
               date_arg |-> DropLast(arg, Len(TildeGroup(arg)) + 1),
               offset |-> offset + IntLiteralVal(TildeGroup(arg))]
         ELSE Raised("ValueError")
    ELSE Returned(<<arg, offset>>)

RECURSIVE OffsetsLoop(_, _)
OffsetsLoop(arg, offset) ==
    LET it == OffsetsIteration(arg, offset)
    IN  IF it.kind = "continue" THEN OffsetsLoop(it.date_arg, it.offset) ELSE it

\* parse_ancestor_offsets(date_arg): Returned(<<date_arg, offset>>) or Raised
ParseAncestorOffsets(arg) == OffsetsLoop(arg, 0)

(***************************************************************************)
(* helpers.py: find_closest_date                                           *)
(***************************************************************************)
\* bisect.bisect_left(a, x, lo, hi), the standard library's binary search:
\* the result is a 0-based position.
RECURSIVE BisectLeft(_, _, _, _)
BisectLeft(a, x, lo, hi) ==
    IF lo < hi
    THEN LET mid == (lo + hi) \div 2
         IN  IF a[mid + 1] < x
             THEN BisectLeft(a, x, mid + 1, hi)
             ELSE BisectLeft(a, x, lo, mid)
    ELSE lo

\* mutant of FindClosestDate: the comparison sides with the farther neighbour
FindClosestDate_farther(dates, target) ==
    LET pos == BisectLeft(dates, target, 0, Len(dates))
    IN  IF pos = 0 THEN dates[1]
        ELSE IF pos = Len(dates) THEN dates[Len(dates)]
        ELSE LET before == dates[pos]
                 after == dates[pos + 1]
             IN  IF after - target > target - before THEN after ELSE before

\* mutant of FindClosestDate: a tie goes to the newer date
FindClosestDate_tie_newer(dates, target) ==
    LET pos == BisectLeft(dates, target, 0, Len(dates))
    IN  IF pos = 0 THEN dates[1]
        ELSE IF pos = Len(dates) THEN dates[Len(dates)]
        ELSE LET before == dates[pos]
                 after == dates[pos + 1]
             IN  IF after - target <= target - before THEN after ELSE before

FindClosestDate(dates, target) ==
    LET pos == BisectLeft(dates, target, 0, Len(dates))
    IN  IF pos = 0 THEN dates[1]
        ELSE IF pos = Len(dates) THEN dates[Len(dates)]
        ELSE LET before == dates[pos]
                 after == dates[pos + 1]
             IN  IF after - target < target - before THEN after ELSE before

(***************************************************************************)
(* Dates and their text.  Date 0 is 2020-01-01; the years are counted from *)
(* 2020 (year 0) and every fourth one is a leap year, which is the         *)
(* Gregorian calendar from 1901 to 2099.                                   *)
(***************************************************************************)
EpochYear == 2020

DigitChar(n) == CHOOSE c \in Digits : DigitVal(c) = n

TwoDigits(n) == <<DigitChar(n \div 10), DigitChar(n % 10)>>

\* the date of 1 January of year y
YearStart(y) == 365 * y + ((y + 3) \div 4)

MonthLengths(y) ==
    <<31, IF y % 4 = 0 THEN 29 ELSE 28, 31, 30, 31, 30, 31, 31, 30, 31, 30, 31>>

RECURSIVE DaysBeforeMonth(_, _)
DaysBeforeMonth(y, m) ==
    IF m = 1 THEN 0 ELSE DaysBeforeMonth(y, m - 1) + MonthLengths(y)[m - 1]

\* datetime.date(year, month, day)
DateOf(y, m, day) == YearStart(y) + DaysBeforeMonth(y, m) + day - 1

\* the years a date of the model can fall in
YearRange == (0 - 1)..(NumYears + 1)

\* date.year, counted from 2020
YearOf(d) == CHOOSE y \in YearRange : YearStart(y) <= d /\ d < YearStart(y + 1)

\* date.month
MonthOf(d) ==
    LET y == YearOf(d)
        n == d - YearStart(y)
    IN  CHOOSE m \in 1..12 :
            /\ DaysBeforeMonth(y, m) <= n
            /\ n < DaysBeforeMonth(y, m) + MonthLengths(y)[m]

\* date.day
DayOf(d) == d - YearStart(YearOf(d)) - DaysBeforeMonth(YearOf(d), MonthOf(d)) + 1

\* str(date.year), also the name of the year's directory
YearString(y) ==
    TwoDigits((EpochYear + y) \div 100) \o TwoDigits((EpochYear + y) % 100)

\* date.strftime("%Y-%m-%d")
FormatDate(d) ==
    YearString(YearOf(d)) \o <<"-">> \o TwoDigits(MonthOf(d))
        \o <<"-">> \o TwoDigits(DayOf(d))

\* datetime.datetime.strptime(s, "%Y-%m-%d").date() for a text of the form
\* dddd-dd-dd, the only form the entry pattern lets through: the date, or
\* ValueError when the text is longer or names no day of the calendar
Strptime(s) ==
    IF /\ Len(s) = 10
       /\ \A k \in {1, 2, 3, 4, 6, 7, 9, 10} : s[k] \in Digits
       /\ s[5] = "-" /\ s[8] = "-"
    THEN LET y == DecimalVal(SubSeq(s, 1, 4)) - EpochYear
             m == DecimalVal(SubSeq(s, 6, 7))
             day == DecimalVal(SubSeq(s, 9, 10))
         IN  IF m \in 1..12 /\ day >= 1 /\ day <= MonthLengths(y)[m]
             THEN Returned(DateOf(y, m, day))
             ELSE Raised("ValueError")
    ELSE Raised("ValueError")

(***************************************************************************)
(* Ordering of strings and sorted()                                        *)
(***************************************************************************)
LowerLetters ==
    <<"a", "b", "c", "d", "e", "f", "g", "h", "i", "j", "k", "l", "m",
      "n", "o", "p", "q", "r", "s", "t", "u", "v", "w", "x", "y", "z">>

UpperLetters ==
    <<"A", "B", "C", "D", "E", "F", "G", "H", "I", "J", "K", "L", "M",
      "N", "O", "P", "Q", "R", "S", "T", "U", "V", "W", "X", "Y", "Z">>

PositionIn(letters, c) == CHOOSE k \in DOMAIN letters : letters[k] = c

\* the code point of a character
CharCode(c) ==
    CASE c = NL -> 10
      [] c = "-" -> 45
      [] c = "." -> 46
      [] c \in Digits -> 48 + DigitVal(c)
      [] c = "@" -> 64
      [] c \in Range(UpperLetters) -> 64 + PositionIn(UpperLetters, c)
      [] c = "^" -> 94
      [] c \in Range(LowerLetters) -> 96 + PositionIn(LowerLetters, c)
      [] c = "~" -> 126

\* str.lower(), character by character
LowerChar(c) ==
    IF c \in Range(UpperLetters) THEN LowerLetters[PositionIn(UpperLetters, c)] ELSE c

Lower(s) == [k \in DOMAIN s |-> LowerChar(s[k])]

Min(a, b) == IF a < b THEN a ELSE b

\* a < b for strings
LexLess(a, b) ==
    \/ Len(a) < Len(b) /\ a = Take(b, Len(a))
    \/ \E k \in 1..Min(Len(a), Len(b)) :
           /\ Take(a, k - 1) = Take(b, k - 1)
           /\ CharCode(a[k]) < CharCode(b[k])

\* sorted() of a set of distinct strings
RECURSIVE SortedNames(_)
SortedNames(S) ==
    IF S = {} THEN <<>>
    ELSE LET m == CHOOSE x \in S : \A y \in S : y = x \/ LexLess(x, y)
         IN  <<m>> \o SortedNames(S \ {m})

\* sorted() of the list that holds the date of every one of the names; two
\* names with the same date give the date twice
RECURSIVE SortedDates(_, _)
SortedDates(names, date_of) ==
    IF names = {} THEN <<>>
    ELSE LET m == CHOOSE x \in names : \A y \in names : date_of[x].val <= date_of[y].val
         IN  <<date_of[m].val>> \o SortedDates(names \ {m}, date_of)

(***************************************************************************)
(* journal.py: the entry index.  A journal maps the name of each child of  *)
(* the journal's base directory to [type |-> "dir", files |-> the set of   *)
(* names in it] or to [type |-> "file"].                                   *)
(***************************************************************************)
Dir(files) == [type |-> "dir", files |-> files]

\* re.match(r"\d{4}", y): the pattern is not anchored at the end
MatchesYear(y) == Len(y) >= 4 /\ \A k \in 1..4 : y[k] \in Digits

\* re.match(r"\d{4}-\d{2}-\d{2}.txt", d): not anchored at the end, and the
\* "." stands for any character but a newline
MatchesEntry(d) ==
    /\ Len(d) >= 14
    /\ \A k \in {1, 2, 3, 4, 6, 7, 9, 10} : d[k] \in Digits
    /\ d[5] = "-" /\ d[8] = "-"
    /\ d[11] # NL
    /\ SubSeq(d, 12, 14) = <<"t", "x", "t">>

GetExistingYearDirectories(jrnl) ==
    SortedNames({y \in DOMAIN jrnl : MatchesYear(y)})

\* os.listdir of a child of the base directory
ListYearDir(year, jrnl) ==
    IF jrnl[year].type = "dir"
    THEN Returned(jrnl[year].files)
    ELSE Raised("NotADirectoryError")

GetYearsExistingEntryDates(year, jrnl) ==
    LET file_names == ListYearDir(year, jrnl)
    IN  IF file_names.kind = "raise" THEN file_names
        ELSE LET matching == {d \in file_names.val : MatchesEntry(d)}
                 date_of == [d \in matching |-> Strptime(DropLast(d, 4))]
             IN  IF \E d \in matching : date_of[d].kind = "raise"
                 THEN Raised("ValueError")
                 ELSE Returned(SortedDates(matching, date_of))

\* the lists of the years in the order given, concatenated; the first year
\* whose listing raises ends the scan
RECURSIVE ConcatYears(_, _)
ConcatYears(years, jrnl) ==
    IF years = <<>> THEN Returned(<<>>)
    ELSE LET first == GetYearsExistingEntryDates(years[1], jrnl)
         IN  IF first.kind = "raise" THEN first
             ELSE LET rest == ConcatYears(Drop(years, 1), jrnl)
                  IN  IF rest.kind = "raise" THEN rest
                      ELSE Returned(first.val \o rest.val)

GetAllEntryDates(jrnl) == ConcatYears(GetExistingYearDirectories(jrnl), jrnl)

\* list.index(x): the 1-based position of the first occurrence
FirstIndex(l, x) ==
    CHOOSE k \in DOMAIN l : l[k] = x /\ \A j \in DOMAIN l : l[j] = x => k <= j

\* mutant of FindEntrysNthAncestor: only the upper end is validated, and a
\* negative position counts from the end of the list
FindEntrysNthAncestor_wraps(date, n, jrnl) ==
    LET year_entries == GetAllEntryDates(jrnl)
    IN  IF year_entries.kind = "raise" THEN year_entries
        ELSE IF date \notin Range(year_entries.val)
        THEN Raised("EntryArgumentNotFoundException")
        ELSE LET ancestor_index == (FirstIndex(year_entries.val, date) - 1) - n
                 len == Len(year_entries.val)
             IN  IF ancestor_index >= len \/ ancestor_index < 0 - len
                 THEN Raised("EntryAncestorNotFoundException")
                 ELSE IF ancestor_index < 0
                 THEN Returned(year_entries.val[len + ancestor_index + 1])
                 ELSE Returned(year_entries.val[ancestor_index + 1])

\* mutant of FindEntrysNthAncestor: the offset is added instead of subtracted
FindEntrysNthAncestor_descendant(date, n, jrnl) ==
    LET year_entries == GetAllEntryDates(jrnl)
    IN  IF year_entries.kind = "raise" THEN year_entries
        ELSE IF date \notin Range(year_entries.val)
        THEN Raised("EntryArgumentNotFoundException")
        ELSE LET ancestor_index == (FirstIndex(year_entries.val, date) - 1) + n
             IN  IF ancestor_index < 0 \/ ancestor_index >= Len(year_entries.val)
                 THEN Raised("EntryAncestorNotFoundException")
                 ELSE Returned(year_entries.val[ancestor_index + 1])

\* target_index and ancestor_index are 0-based as in the source
FindEntrysNthAncestor(date, n, jrnl) ==
    LET year_entries == GetAllEntryDates(jrnl)
    IN  IF year_entries.kind = "raise" THEN year_entries
        ELSE IF date \notin Range(year_entries.val)
        THEN Raised("EntryArgumentNotFoundException")
        ELSE LET ancestor_index == (FirstIndex(year_entries.val, date) - 1) - n
             IN  IF ancestor_index < 0 \/ ancestor_index >= Len(year_entries.val)
                 THEN Raised("EntryAncestorNotFoundException")
                 ELSE Returned(year_entries.val[ancestor_index + 1])

FindClosestExistingEntry(date, jrnl) ==
    LET year_entries == GetAllEntryDates(jrnl)
    IN  IF year_entries.kind = "raise" THEN year_entries
        ELSE IF year_entries.val = <<>>
        THEN Raised("EntryAncestorNotFoundException")
        ELSE Returned(FindClosestDate(year_entries.val, date))

\* the years from the last to the first, until one has an entry
RECURSIVE LastestFrom(_, _)
LastestFrom(years, jrnl) ==
    IF years = <<>> THEN Raised("JournalHeadNotFoundException")
    ELSE LET year_dates == GetYearsExistingEntryDates(years[Len(years)], jrnl)
         IN  IF year_dates.kind = "raise" THEN year_dates
             ELSE IF year_dates.val # <<>>
             THEN Returned(year_dates.val[Len(year_dates.val)])
             ELSE LastestFrom(DropLast(years, 1), jrnl)

FindLastestExistingEntry(jrnl) ==
    LastestFrom(GetExistingYearDirectories(jrnl), jrnl)

(***************************************************************************)
(* journal.py: parse_dates                                                 *)
(***************************************************************************)
Keywords == {<<"h", "e", "a", "d">>, <<"l", "a", "s", "t">>,
             <<"l", "a", "t", "e", "s", "t">>}

\* str.strip() of the newlines around an integer literal
RECURSIVE StripNewlines(_)
StripNewlines(s) ==
    IF s # <<>> /\ s[1] = NL THEN StripNewlines(Drop(s, 1))
    ELSE IF s # <<>> /\ s[Len(s)] = NL THEN StripNewlines(DropLast(s, 1))
    ELSE s

\* int(date_string): the value, or ValueError
PyInt(s) ==
    IF IsIntLiteral(StripNewlines(s))
    THEN Returned(IntLiteralVal(StripNewlines(s)))
    ELSE Raised("ValueError")

\* str(n) for an integer n
RECURSIVE NatText(_)
NatText(n) ==
    IF n < 10 THEN <<DigitChar(n)>> ELSE NatText(n \div 10) \o <<DigitChar(n % 10)>>

IntText(n) == IF n < 0 THEN <<"-">> \o NatText(0 - n) ELSE NatText(n)

\* datetime.date.min, 0001-01-01, as a day ordinal counted from 2020-01-01
\* (date(2020, 1, 1).toordinal() is 737425 and date.min.toordinal() is 1)
MinDate == 1 - 737425

\* the largest number of days a datetime.timedelta holds
MaxTimedeltaDays == 999999999

\* mutant of OffsetDate: late_night_date_offset is left out of the sum
OffsetDate_no_late_night(tdy, date_offset, lno) ==
    IF \/ Abs(date_offset) > MaxTimedeltaDays
       \/ tdy + date_offset < MinDate
       \/ tdy + date_offset + lno < MinDate
    THEN Raised("OverflowError")
    ELSE Returned(tdy + date_offset)

\* datetime.date.today() + datetime.timedelta(days=date_offset)
\*     + late_night_date_offset
\* raises OverflowError when the timedelta or one of the two sums is out of
\* range (the sums of this model never pass datetime.date.max)
OffsetDate(tdy, date_offset, lno) ==
    IF \/ Abs(date_offset) > MaxTimedeltaDays
       \/ tdy + date_offset < MinDate
       \/ tdy + date_offset + lno < MinDate
    THEN Raised("OverflowError")
    ELSE Returned(tdy + date_offset + lno)

\* dateutil.parser.parse(date_string, fuzzy=True).date() on the kinds of
\* text the arguments of this model hold: a YYYY-MM-DD date, which it reads as
\* strptime does; a lone day number, which it places in the current month;
\* a number above 9999, which it takes for a year that no date can have
\* (ValueError); text without any digit, which holds no date (ValueError).
DateutilParse(s, tdy) ==
    IF Strptime(s).kind = "return" THEN Strptime(s)
    ELSE IF /\ IsIntLiteral(s)
            /\ IntLiteralVal(s) >= 1
            /\ IntLiteralVal(s) <= MonthLengths(YearOf(tdy))[MonthOf(tdy)]
    THEN Returned(DateOf(YearOf(tdy), MonthOf(tdy), IntLiteralVal(s)))
    ELSE Raised("ValueError")

\* a line printed to sys.stderr: the format and the text put in its %s
Msg(fmt, arg) == [fmt |-> fmt, arg |-> arg]

NoEntryMsg == Msg("No existing journal entry found!", <<>>)
TooLargeMsg(n) == Msg("%s is too large an offset!", IntText(n))
InvalidMsg(text) == Msg("%s is not a valid date!", text)
BaseMsg(text) == Msg("Base of %s does not correspond to an existing entry!", text)
BasedOnMsg == Msg("Ancestor lookup needs to be based on an existing entry!", <<>>)
AncestorMsg(text) == Msg("Ancestor %s does not exist!", text)

\* How one pass through the body of the for loop ends: the date is appended,
\* the loop continues without a date, or an exception leaves parse_dates.
\* err holds the lines the pass prints.
Appended(date, err) == [kind |-> "append", date |-> date, err |-> err]
Continued(err) == [kind |-> "continue", err |-> err]

\* mutant of ResolveBase: a positive integer counts as an offset too
ResolveBase_positive_offsets(date_string, lno, tdy, jrnl) ==
    IF Lower(date_string) \in Keywords
    THEN LET head == FindLastestExistingEntry(jrnl)
         IN  IF head.kind = "raise" /\ head.exc = "JournalHeadNotFoundException"
             THEN Continued(<<NoEntryMsg>>)
             ELSE head
    ELSE LET date_offset == PyInt(date_string)
         IN  IF date_offset.kind = "return"
             THEN LET shifted == OffsetDate(tdy, date_offset.val, lno)
                  IN  IF shifted.kind = "return" THEN shifted
                      ELSE Continued(<<TooLargeMsg(date_offset.val)>>)
             ELSE LET parsed == DateutilParse(date_string, tdy)
                  IN  IF parsed.kind = "return" THEN parsed
                      ELSE Continued(<<InvalidMsg(date_string)>>)

\* lines 296-348: the date of the stripped date_string, before "@" matching
\* and ancestor offsets
ResolveBase(date_string, lno, tdy, jrnl) ==
    IF Lower(date_string) \in Keywords
    THEN LET head == FindLastestExistingEntry(jrnl)
         IN  IF head.kind = "raise" /\ head.exc = "JournalHeadNotFoundException"
             THEN Continued(<<NoEntryMsg>>)
             ELSE head
    ELSE LET date_offset == PyInt(date_string)
         IN  IF date_offset.kind = "return" /\ date_offset.val <= 0
             THEN LET shifted == OffsetDate(tdy, date_offset.val, lno)
                  IN  IF shifted.kind = "return" THEN shifted
                      ELSE Continued(<<TooLargeMsg(date_offset.val)>>)
             ELSE LET parsed == DateutilParse(date_string, tdy)
                  IN  IF parsed.kind = "return" THEN parsed
                      ELSE Continued(<<InvalidMsg(date_string)>>)

\* mutant of ApplyClosest: the "@" is stripped but no closest entry is
\* looked for
ApplyClosest_skipped(parsed_date, do_find_closest_entry, jrnl) ==
    Appended(parsed_date, <<>>)

\* lines 350-358
ApplyClosest(parsed_date, do_find_closest_entry, jrnl) ==
    IF ~do_find_closest_entry THEN Appended(parsed_date, <<>>)
    ELSE LET found == FindClosestExistingEntry(parsed_date, jrnl)
         IN  IF found.kind = "return" THEN Appended(found.val, <<>>)
             ELSE IF found.exc = "EntryNeighbourNotFoundException"
             THEN Appended(parsed_date, <<NoEntryMsg>>)
             ELSE found

\* mutant of ApplyAncestor: the message names the stripped date_string
ApplyAncestor_stripped_text(so_far, ancestor_offset, original, jrnl) ==
    IF so_far.kind # "append" \/ ancestor_offset = 0 THEN so_far
    ELSE LET ancestor ==
                 FindEntrysNthAncestor(so_far.date, ancestor_offset, jrnl)
             stripped == ParseAncestorOffsets(original).val[1]
         IN  IF ancestor.kind = "return" THEN Appended(ancestor.val, so_far.err)
             ELSE IF ancestor.exc = "EntryArgumentNotFoundException"
             THEN Continued(so_far.err \o <<BaseMsg(stripped), BasedOnMsg>>)
             ELSE IF ancestor.exc = "EntryAncestorNotFoundException"
             THEN Continued(so_far.err \o <<AncestorMsg(original)>>)
             ELSE ancestor

\* lines 360-386
ApplyAncestor(so_far, ancestor_offset, original, jrnl) ==
    IF so_far.kind # "append" \/ ancestor_offset = 0 THEN so_far
    ELSE LET ancestor ==
                 FindEntrysNthAncestor(so_far.date, ancestor_offset, jrnl)
         IN  IF ancestor.kind = "return" THEN Appended(ancestor.val, so_far.err)
             ELSE IF ancestor.exc = "EntryArgumentNotFoundException"
             THEN Continued(so_far.err
                           \o <<BaseMsg(original), BasedOnMsg>>)
             ELSE IF ancestor.exc = "EntryAncestorNotFoundException"
             THEN Continued(so_far.err \o <<AncestorMsg(original)>>)
             ELSE ancestor

\* lines 350-358 after lines 296-348: what the pass holds once the base is
\* resolved.  offsets is what parse_ancestor_offsets gave,
\* do_find_closest_entry the flag, base the outcome of lines 296-348 and
\* so_far that of lines 296-358.
PrefixAfterBase(offsets, do_find_closest_entry, base, jrnl) ==
    [offsets |-> offsets,
     do_find_closest_entry |-> do_find_closest_entry,
     base |-> base,
     so_far |-> IF base.kind # "return" THEN base
                ELSE ApplyClosest(base.val, do_find_closest_entry, jrnl)]

\* lines 281-358: the body of the for loop up to the ancestor offsets
PassPrefix(original, lno, tdy, jrnl) ==
    LET offsets == ParseAncestorOffsets(original)
    IN  IF offsets.kind = "raise"
        THEN [offsets |-> offsets, do_find_closest_entry |-> FALSE,
              base |-> Pending, so_far |-> offsets]
        ELSE LET stripped == offsets.val[1]
                 do_find_closest_entry == stripped # <<>> /\ stripped[1] = "@"
                 date_string ==
                     IF do_find_closest_entry THEN Drop(stripped, 1) ELSE stripped
             IN  PrefixAfterBase(offsets, do_find_closest_entry,
                                 ResolveBase(date_string, lno, tdy, jrnl), jrnl)

\* lines 360-389: the rest of the body, given what lines 281-358 computed
PassSuffix(pre, original, jrnl) ==
    IF pre.offsets.kind = "raise" THEN pre.offsets
    ELSE ApplyAncestor(pre.so_far, pre.offsets.val[2], original, jrnl)

\* lines 281-389: the body of the for loop for one date_string
ParseDateArg(original, lno, tdy, jrnl) ==
    PassSuffix(PassPrefix(original, lno, tdy, jrnl), original, jrnl)

(***************************************************************************)
(* journal.py: write_timestamp.  What is at a path is Absent or a file     *)
(* with its text; this_datetime is [date |-> the day, minute |-> the       *)
(* minute of the day].                                                     *)
(***************************************************************************)
Absent == [kind |-> "absent"]
FileOf(text) == [kind |-> "file", text |-> text]

\* sub in text
Contains(text, sub) ==
    \E k \in 1..(Len(text) - Len(sub) + 1) : SubSeq(text, k, k + Len(sub) - 1) = sub

\* text.endswith(sub)
EndsWith(text, sub) ==
    Len(text) >= Len(sub) /\ Drop(text, Len(text) - Len(sub)) = sub

\* this_datetime.strftime("%H:%M")
FormatTime(minute) == TwoDigits(minute \div 60) \o <<":">> \o TwoDigits(minute % 60)

\* mutant of NewText: the time line is not terminated
NewText_time_unterminated(this_date, this_time) == this_date \o <<NL>> \o this_time

\* line 425: the text written to a new file
NewText(this_date, this_time) == this_date \o <<NL>> \o this_time \o <<NL>>

\* mutant of AppendedText: the date is written on every call
AppendedText_always_date(entry_text, this_date, this_time) ==
    LET print_newline == ~EndsWith(entry_text, <<NL, NL>>)
    IN  (IF print_newline THEN <<NL>> ELSE <<>>)
            \o this_date \o <<NL>>
            \o this_time \o <<NL, NL>>

\* mutant of AppendedText: one newline after the time
AppendedText_one_newline(entry_text, this_date, this_time) ==
    LET print_date == ~Contains(entry_text, this_date)
        print_newline == ~EndsWith(entry_text, <<NL, NL>>)
    IN  (IF print_newline THEN <<NL>> ELSE <<>>)
            \o (IF print_date THEN this_date \o <<NL>> ELSE <<>>)
            \o this_time \o <<NL>>

\* lines 428-448: the text appended to an existing file
AppendedText(entry_text, this_date, this_time) ==
    LET print_date == ~Contains(entry_text, this_date)
        print_newline == ~EndsWith(entry_text, <<NL, NL>>)
    IN  (IF print_newline THEN <<NL>> ELSE <<>>)
            \o (IF print_date THEN this_date \o <<NL>> ELSE <<>>)
            \o this_time \o <<NL, NL>>

\* mutant of WriteTimestamp: an existing file is opened for writing, not
\* for appending, so its text is lost
WriteTimestamp_truncates(file, this_datetime) ==
    LET this_date == FormatDate(this_datetime.date)
        this_time == FormatTime(this_datetime.minute)
    IN  IF file.kind # "file" THEN FileOf(NewText(this_date, this_time))
        ELSE FileOf(AppendedText(file.text, this_date, this_time))

\* write_timestamp(entry_path, this_datetime): what is at entry_path afterwards
WriteTimestamp(file, this_datetime) ==
    LET this_date == FormatDate(this_datetime.date)
        this_time == FormatTime(this_datetime.minute)
    IN  IF file.kind # "file"
        THEN FileOf(NewText(this_date, this_time))
        ELSE FileOf(file.text \o AppendedText(file.text, this_date, this_time))

(***************************************************************************)
(* Specification SpecClosest: find_closest_date applied to every non-empty *)
(* ascending list (repeated dates allowed) and every target, including     *)
(* targets before the first and after the last date.                       *)
(***************************************************************************)
ListDates == 0..MaxListDate

AscendingLists ==
    {l \in UNION {[1..n -> ListDates] : n \in 1..MaxListLen} : IsAscending(l)}

\* the variables of the other specifications, left unused
IdleClosest == date_list = <<>> /\ target_date = 0 /\ closest = Pending
IdleOffsets ==
    oa_input = <<>> /\ oa_date_arg = <<>> /\ oa_offset = 0 /\ oa_result = Pending
IdleEnv == journal = <<>> /\ today = 0
IdleParseDates ==
    /\ late_night_date_offset = 0
    /\ args_done = 0
    /\ original_date_string = <<>>
    /\ locals = Pending
    /\ parsed_dates = <<>>
    /\ stderr = <<>>
    /\ pd_result = Pending
IdleAncestor == anc_date = 0 /\ anc_n = 0 /\ anc_result = Pending
IdleTimestamp == entry_file = Pending /\ ts_initial = Pending /\ ts_log = <<>>
IdleIndex == root = Pending /\ index_result = Pending
IdleMain ==
    /\ runtime_args = Pending
    /\ config_dict = Pending
    /\ clock = Pending
    /\ load_time = Pending
    /\ tree = Pending
    /\ pc = "idle"
    /\ main_dates = <<>>
    /\ opened = 0
    /\ events = <<>>
    /\ error_stream = <<>>
    /\ exit_status = Pending

InitClosest ==
    /\ date_list \in AscendingLists
    /\ target_date \in (0 - 1)..(MaxListDate + 1)
    /\ closest = Pending
    /\ IdleOffsets /\ IdleEnv /\ IdleParseDates /\ IdleAncestor /\ IdleTimestamp
    /\ IdleMain /\ IdleIndex

CallFindClosestDate ==
    /\ closest = Pending
    /\ closest' = Returned(FindClosestDate(date_list, target_date))
    /\ UNCHANGED <<date_list, target_date, oa_vars, env_vars, pd_vars, anc_vars,
                   ts_vars,
                   main_vars, idx_vars>>

NextClosest == CallFindClosestDate

SpecClosest == InitClosest /\ [][NextClosest]_vars

(***************************************************************************)
(* Claims about find_closest_date                                          *)
(***************************************************************************)
\* the nearest listed date before the target and the nearest at or after it
HasBefore == \E k \in DOMAIN date_list : date_list[k] < target_date
HasAfter == \E k \in DOMAIN date_list : date_list[k] >= target_date
NearestBefore ==
    CHOOSE d \in Range(date_list) :
        /\ d < target_date
        /\ \A e \in Range(date_list) : e < target_date => e <= d
NearestAfter ==
    CHOOSE d \in Range(date_list) :
        /\ d >= target_date
        /\ \A e \in Range(date_list) : e >= target_date => d <= e

\* C1: for a non-empty ascending list and any target, find_closest_date
\* returns a member of the list that no other member is strictly closer to
\* (in days); a target before the first date yields the first date, a target
\* after the last date yields the last date.
C1_ClosestIsNearest ==
    closest.kind = "return" =>
        /\ closest.val \in Range(date_list)
        /\ \A e \in Range(date_list) :
               Abs(closest.val - target_date) <= Abs(e - target_date)
        /\ target_date < date_list[1] => closest.val = date_list[1]
        /\ target_date > date_list[Len(date_list)] =>
               closest.val = date_list[Len(date_list)]

\* the target lies strictly between two listed dates at different distances
C1_Witness ==
    /\ closest.kind = "return"
    /\ Len(date_list) = MaxListLen
    /\ HasBefore /\ HasAfter
    /\ target_date \notin Range(date_list)
    /\ NearestAfter - target_date < target_date - NearestBefore
    /\ closest.val = NearestAfter

\* C2: when the target is equally many days from the nearest listed date
\* before it and the nearest listed date after it, find_closest_date returns
\* the older of the two.
C2_TieReturnsOlder ==
    (/\ closest.kind = "return"
     /\ HasBefore /\ HasAfter
     /\ NearestAfter - target_date = target_date - NearestBefore)
    => closest.val = NearestBefore

\* the spec's scenario scaled to ordinals: dates five days either side
C2_Witness ==
    /\ closest.kind = "return"
    /\ date_list = <<0, 10>>
    /\ target_date = 5
    /\ closest.val = 0

(***************************************************************************)
(* Specification SpecOffsets: parse_ancestor_offsets, one loop iteration   *)
(* per step, on every string of up to MaxArgLen characters over            *)
(* ArgAlphabet.                                                            *)
(***************************************************************************)
ArgAlphabet == {"h", "^", "~", "-", "0", "1", NL}

ArgStrings == UNION {[1..n -> ArgAlphabet] : n \in 0..MaxArgLen}

InitOffsets ==
    /\ oa_input \in ArgStrings
    /\ oa_date_arg = oa_input
    /\ oa_offset = 0
    /\ oa_result = Pending
    /\ IdleClosest /\ IdleEnv /\ IdleParseDates /\ IdleAncestor /\ IdleTimestamp
    /\ IdleMain /\ IdleIndex

\* lines 240-245: a trailing caret
StripCaret ==
    /\ oa_result = Pending
    /\ EndsWithCaret(oa_date_arg)
    /\ LET it == OffsetsIteration(oa_date_arg, oa_offset)
       IN  oa_date_arg' = it.date_arg /\ oa_offset' = it.offset
    /\ UNCHANGED <<oa_input, oa_result, closest_vars, env_vars, pd_vars, anc_vars,
                   ts_vars,
                   main_vars, idx_vars>>

\* lines 248-257: a trailing "~" with a non-empty group
StripTilde ==
    /\ oa_result = Pending
    /\ ~EndsWithCaret(oa_date_arg)
    /\ LET it == OffsetsIteration(oa_date_arg, oa_offset)
       IN  /\ it.kind = "continue"
           /\ oa_date_arg' = it.date_arg /\ oa_offset' = it.offset
    /\ UNCHANGED <<oa_input, oa_result, closest_vars, env_vars, pd_vars, anc_vars,
                   ts_vars,
                   main_vars, idx_vars>>

\* line 253: int("-") raises ValueError, which nothing in the function catches
RaiseInOffsets ==
    /\ oa_result = Pending
    /\ LET it == OffsetsIteration(oa_date_arg, oa_offset)
       IN  it.kind = "raise" /\ oa_result' = it
    /\ UNCHANGED <<oa_input, oa_date_arg, oa_offset, closest_vars, env_vars, pd_vars,
                   anc_vars, ts_vars,
                   main_vars, idx_vars>>

\* line 260
ReturnOffsets ==
    /\ oa_result = Pending
    /\ LET it == OffsetsIteration(oa_date_arg, oa_offset)
       IN  it.kind = "return" /\ oa_result' = it
    /\ UNCHANGED <<oa_input, oa_date_arg, oa_offset, closest_vars, env_vars, pd_vars,
                   anc_vars, ts_vars,
                   main_vars, idx_vars>>

NextOffsets == StripCaret \/ StripTilde \/ RaiseInOffsets \/ ReturnOffsets

SpecOffsets == InitOffsets /\ [][NextOffsets]_vars

(***************************************************************************)
(* Claims about parse_ancestor_offsets                                     *)
(***************************************************************************)
\* oa_input is <base>~<int>; the int holds no "~", so the "~" is the last one
IsBaseTildeInt(s) == HasTilde(s) /\ IsIntLiteral(Drop(s, LastTilde(s)))
BaseOf(s) == Take(s, LastTilde(s) - 1)
IntOf(s) == IntLiteralVal(Drop(s, LastTilde(s)))

\* the base itself ends in something the loop acts on: a caret, or a "~"
\* followed by a sign and/or digits
EndsInOperator(b) ==
    \/ EndsWithCaret(b)
    \/ HasTilde(b) /\ Drop(b, LastTilde(b)) # <<>> /\ IsSignedDigits(Drop(b, LastTilde(b)))

HasNewline(s) == \E k \in DOMAIN s : s[k] = NL

EntryDates == {DateOf(y, 1, day) : y \in 0..(NumYears - 1), day \in 1..DaysPerYear}

YearNames == {YearString(y) : y \in 0..(NumYears - 1)}

\* the name of the entry file of a date
EntryFileName(d) == FormatDate(d) \o <<".", "t", "x", "t">>

\* A journal of year directories: P is the set of <<year name, date>> pairs,
\* one per entry file (any date's file in any year's directory), E a set of
\* year directories that exist whether or not they hold a file.
JournalOf(P, E) ==
    [y \in {p[1] : p \in P} \cup E |->
        Dir({EntryFileName(p[2]) : p \in {q \in P : q[1] = y}})]

\* every date's file in the directory of the date's year
InOwnYear(S) == {<<YearString(YearOf(d)), d>> : d \in S}

\* The journals: up to MaxEntries entries, each in the directory of its
\* year; one entry file in any year's directory (its own or another)
\* beside at most one entry in the directory of its year; no entry at all,
\* with any of the year directories.
Journals ==
    {JournalOf(InOwnYear(S), {}) :
        S \in {T \in SUBSET EntryDates : Cardinality(T) <= MaxEntries}}
    \cup {JournalOf({<<y, d>>} \cup InOwnYear(S), {}) :
            y \in YearNames, d \in EntryDates,
            S \in {T \in SUBSET EntryDates : Cardinality(T) <= 1}}
    \cup {JournalOf({}, E) : E \in SUBSET YearNames}

\* get_all_entry_dates for every journal of the specifications; the "@@"
\* makes TLC build the table once instead of on every use
IndexTable == [jrnl \in Journals |-> GetAllEntryDates(jrnl)] @@ <<>>

\* the entry index of the current journal (these journals never make the
\* scan raise)
Index == IndexTable[journal].val

Carets(k) == [j \in 1..k |-> "^"]

HeadWord == <<"h", "e", "a", "d">>

Zero == <<"0">>

FirstDate == FormatDate(0)

\* the date arguments: the latest entry and its ancestors; today, with an
\* offset chain, with "@", with both; a date, with a caret, with "@"; text
\* that is no date; a chain that ends in a lone sign; keywords in other
\* letter cases; a positive number that is a day of the month and one that
\* is no date; an offset that leads before datetime.date.min
DateArgs ==
    {HeadWord \o Carets(k) : k \in 0..MaxEntries}
    \cup {Zero, <<"-", "1">>, Zero \o <<"^">>, Zero \o <<"~", "0">>,
          Zero \o <<"^", "~", "-", "1">>}
    \cup {<<"@">> \o Zero, <<"@">> \o Zero \o <<"^">>,
          <<"@">> \o Zero \o <<"~", "0">>}
    \cup {FirstDate, FirstDate \o <<"^">>, <<"@">> \o FormatDate(1)}
    \cup {<<"h">>, Zero \o <<"~", "-">>}
    \cup {<<"L", "a", "s", "t">>, <<"L", "A", "T", "E", "S", "T">>}
    \cup {<<"1">>, <<"9", "9", "9", "9", "9">>, <<"-", "8", "0", "0", "0", "0", "0">>}

\* the run is on the last day that can have an entry
Todays == {DateOf(NumYears - 1, 1, DaysPerYear)}

LateNightOffsets == {0, 0 - 1}

\* one pass: pre is PassPrefix and out is ParseDateArg, which is PassSuffix
\* of pre
PassOf(pre, arg, jrnl) == [pre |-> pre, out |-> PassSuffix(pre, arg, jrnl)]

\* The pass for every argument, offset, day and journal of Spec.  The "@@"
\* makes TLC build the table once instead of on every use.
PassTable ==
    [arg \in DateArgs, lno \in LateNightOffsets, tdy \in Todays, jrnl \in Journals |->
        PassOf(PassPrefix(arg, lno, tdy, jrnl), arg, jrnl)] @@ <<>>

(***************************************************************************)
(* Specification Spec: one parse_dates call, one pass through the body of  *)
(* its for loop per step; each pass takes the next date argument.          *)
(***************************************************************************)
Init ==
    /\ journal \in Journals
    /\ today \in Todays
    /\ late_night_date_offset \in LateNightOffsets
    /\ args_done = 0
    /\ original_date_string = <<>>
    /\ locals = Pending
    /\ parsed_dates = <<>>
    /\ stderr = <<>>
    /\ pd_result = Pending
    /\ IdleClosest /\ IdleOffsets /\ IdleAncestor /\ IdleTimestamp
    /\ IdleMain /\ IdleIndex

\* the pass for the next argument, arg
Pass(arg) == PassTable[arg, late_night_date_offset, today, journal]

\* lines 280-389: one pass through the body of the for loop.  It appends the
\* date (line 389), or reports the argument and continues without a date, or
\* ends the call with an exception that no except clause names.  locals
\* keeps what the pass computed up to line 358.
ParseDatesPass(arg) ==
    /\ pd_result = Pending
    /\ args_done < MaxArgs
    /\ args_done' = args_done + 1
    /\ original_date_string' = arg
    /\ \E pass \in {Pass(arg)} :
           /\ locals' = pass.pre
           /\ parsed_dates' =
                  IF pass.out.kind = "append" THEN parsed_dates \o <<pass.out.date>>
                  ELSE parsed_dates
           /\ stderr' =
                  IF pass.out.kind = "raise" THEN stderr ELSE stderr \o pass.out.err
           /\ pd_result' =
                  IF pass.out.kind = "raise" THEN Raised(pass.out.exc) ELSE pd_result
    /\ UNCHANGED <<late_night_date_offset, env_vars, closest_vars, oa_vars,
                   anc_vars, ts_vars,
                   main_vars, idx_vars>>

\* line 391: date_args is exhausted
ReturnParsedDates ==
    /\ pd_result = Pending
    /\ pd_result' = Returned(parsed_dates)
    /\ UNCHANGED <<late_night_date_offset, args_done, original_date_string,
                   locals, parsed_dates, stderr, env_vars, closest_vars,
                   oa_vars, anc_vars, ts_vars,
                   main_vars, idx_vars>>

Next ==
    \/ \E arg \in DateArgs : ParseDatesPass(arg)
    \/ ReturnParsedDates

Spec == Init /\ [][Next]_vars

(***************************************************************************)
(* Specification SpecAncestor: find_entrys_nth_ancestor on every journal,  *)
(* every date of the calendar and every offset up to MaxEntries either way *)
(***************************************************************************)
InitAncestor ==
    /\ journal \in Journals
    /\ today \in Todays
    /\ anc_date \in EntryDates
    /\ anc_n \in (0 - MaxEntries)..MaxEntries
    /\ anc_result = Pending
    /\ IdleClosest /\ IdleOffsets /\ IdleParseDates /\ IdleTimestamp
    /\ IdleMain /\ IdleIndex

CallFindEntrysNthAncestor ==
    /\ anc_result = Pending
    /\ anc_result' = FindEntrysNthAncestor(anc_date, anc_n, journal)
    /\ UNCHANGED <<anc_date, anc_n, env_vars, closest_vars, oa_vars, pd_vars, ts_vars,
                   main_vars, idx_vars>>

NextAncestor == CallFindEntrysNthAncestor

SpecAncestor == InitAncestor /\ [][NextAncestor]_vars

(***************************************************************************)
(* Claims about find_entrys_nth_ancestor and parse_dates                   *)
(***************************************************************************)
\* the 0-based positions of the entry index
Positions == 0..(Len(Index) - 1)

\* C4: for a date at position i of the entry index and an n with
\* 0 <= i - n < len(index), find_entrys_nth_ancestor returns the element at
\* position i - n, which is older than the date when n > 0, newer when
\* n < 0 and the date itself when n = 0.
C4_AncestorAtPosition ==
    anc_result # Pending =>
        \A i \in Positions :
            (Index[i + 1] = anc_date /\ i - anc_n \in Positions) =>
                /\ anc_result = Returned(Index[i - anc_n + 1])
                /\ anc_n > 0 => anc_result.val < anc_date
                /\ anc_n < 0 => anc_result.val > anc_date
                /\ anc_n = 0 => anc_result.val = anc_date

\* a step that is a pass of the for loop
PassTaken == args_done' = args_done + 1

\* the latest pass got as far as the ancestor offsets (line 360) with a date
ReachedAncestor == args_done > 0 /\ locals.so_far.kind = "append"
AncestorOffset == locals.offsets.val[2]
AncestorBase == locals.so_far.date

\* the argument of the latest pass carried an offset chain
ChainPresent ==
    /\ args_done > 0
    /\ locals.offsets.kind = "return"
    /\ locals.offsets.val[1] # original_date_string

\* the argument of the latest pass had the "@" prefix and a base that
\* resolved to a date
ClosestAsked ==
    /\ args_done > 0
    /\ locals.do_find_closest_entry
    /\ locals.base.kind = "return"

\* the position index_of(date) - n that the latest pass asks for
RequestedPosition == (FirstIndex(Index, AncestorBase) - 1) - AncestorOffset

LastOf(l) == l[Len(l)]

\* C3: with an entry index d1 < ... < dm and 1 <= k < m, parse_dates on the
\* single argument "head" followed by k carets returns exactly [d(m-k)].
C3_HeadCarets ==
    (/\ pd_result.kind = "return"
     /\ args_done = 1
     /\ IsStrictlyAscending(Index))
    => \A k \in 1..(Len(Index) - 1) :
           original_date_string = HeadWord \o Carets(k)
           => pd_result.val = <<Index[Len(Index) - k]>>

\* "head" with MaxEntries - 1 carets resolves to the oldest of MaxEntries
\* entries
C3_Witness ==
    /\ pd_result.kind = "return"
    /\ args_done = 1
    /\ IsStrictlyAscending(Index)
    /\ Len(Index) = MaxEntries
    /\ original_date_string = HeadWord \o Carets(MaxEntries - 1)
    /\ pd_result.val = <<Index[1]>>

C6_BaseNotFoundDropped ==
    [][(/\ PassTaken
        /\ ReachedAncestor'
        /\ AncestorOffset' # 0
        /\ AncestorBase' \notin Range(Index))
       => /\ parsed_dates' = parsed_dates
          /\ stderr' = stderr \o <<BaseMsg(original_date_string'), BasedOnMsg>>
          /\ pd_result' = Pending]_vars

\* "0^" on a day without an entry is reported with its caret, and the next
\* argument, "0", still gives its date
C6_Witness ==
    /\ args_done = 2
    /\ stderr = <<BaseMsg(Zero \o <<"^">>), BasedOnMsg>>
    /\ original_date_string = Zero
    /\ parsed_dates = <<today + late_night_date_offset>>
    /\ parsed_dates[1] \notin Range(Index)

\* C7: an argument whose offset chain is present but sums to zero and whose
\* base date has no entry is rejected with the "Base of ..." line and gives
\* no date.
C7_ZeroChainRejected ==
    [][(/\ PassTaken
        /\ ChainPresent'
        /\ ReachedAncestor'
        /\ AncestorOffset' = 0
        /\ AncestorBase' \notin Range(Index))
       => /\ parsed_dates' = parsed_dates
          /\ stderr' = stderr \o <<BaseMsg(original_date_string'), BasedOnMsg>>]_vars

\* C8: when an argument with the "@" prefix is resolved while the entry
\* index is empty, the pass prints the "No existing journal entry found!"
\* line, appends no date, and the loop goes on (no exception leaves
\* parse_dates).
C8_NoEntriesDropped ==
    [][(/\ PassTaken
        /\ ClosestAsked'
        /\ Index = <<>>)
       => /\ parsed_dates' = parsed_dates
          /\ stderr' = stderr \o <<NoEntryMsg>>
          /\ pd_result' = Pending]_vars

\* C9: every date that a pass appends for an argument with the "@" prefix
\* or with an offset chain is a date of the entry index.
C9_RequestedDatesExist ==
    [][(/\ PassTaken
        /\ locals'.do_find_closest_entry \/ ChainPresent'
        /\ Len(parsed_dates') = Len(parsed_dates) + 1)
       => LastOf(parsed_dates') \in Range(Index)]_vars
(***************************************************************************)
(* Claims about the base of an argument (lines 296-348 of parse_dates)     *)
(***************************************************************************)
\* the latest pass got past parse_ancestor_offsets
BaseReached == args_done > 0 /\ locals.offsets.kind = "return"

\* date_string as lines 296-348 see it: without offset chain and "@"
DateString ==
    IF locals.do_find_closest_entry
    THEN Drop(locals.offsets.val[1], 1)
    ELSE locals.offsets.val[1]

\* date_string is the decimal text of an integer
NumberAsked == BaseReached /\ IsIntLiteral(DateString)
NumberValue == IntLiteralVal(DateString)

\* date_string is one of the keywords in some letter case
KeywordAsked == BaseReached /\ Lower(DateString) \in Keywords

\* C11 as claimed: for every date_string that is the decimal text of an
\* integer k <= 0, the base date is today + k days + late_night_date_offset.
C11_OffsetFromToday ==
    (NumberAsked /\ NumberValue <= 0)
    => locals.base = Returned(today + NumberValue + late_night_date_offset)

\* C11 amended: for every date_string that is the decimal text of an integer
\* k <= 0 with today + k + late_night_date_offset not before
\* datetime.date.min, the base date is today + k days +
\* late_night_date_offset; "0" gives today shifted by late_night_date_offset.
C11_OffsetFromTodayInRange ==
    (/\ NumberAsked
     /\ NumberValue <= 0
     /\ today + NumberValue + late_night_date_offset >= MinDate)
    => locals.base = Returned(today + NumberValue + late_night_date_offset)

\* "-1" with a late-night offset of one day gives the day before yesterday
C11_Witness ==
    /\ args_done = 1
    /\ original_date_string = <<"-", "1">>
    /\ late_night_date_offset = 0 - 1
    /\ pd_result = Returned(<<today - 2>>)

\* what dateutil makes of date_string
FreeFormParse == DateutilParse(DateString, today)

\* C12: a date_string that is a strictly positive integer literal is never
\* taken for an offset from today: its base is what free-form date parsing
\* gives, and when that parsing fails the pass prints the "... is not a valid
\* date!" line, appends no date and the loop goes on.
C12_PositiveNotOffset ==
    [][(/\ PassTaken
        /\ NumberAsked'
        /\ NumberValue' > 0)
       => IF FreeFormParse'.kind = "return"
          THEN locals'.base = FreeFormParse'
          ELSE /\ parsed_dates' = parsed_dates
               /\ stderr' = stderr \o <<InvalidMsg(DateString')>>
               /\ pd_result' = Pending]_vars

\* "99999" is reported and dropped, and "1" gives the first day of the
\* current month, which is not the day after today
C12_Witness ==
    /\ args_done = 2
    /\ original_date_string = <<"1">>
    /\ stderr = <<InvalidMsg(<<"9", "9", "9", "9", "9">>)>>
    /\ parsed_dates = <<DateOf(YearOf(today), MonthOf(today), 1)>>
    /\ parsed_dates[1] # today + 1 + late_night_date_offset

\* the greatest date of a non-empty list
MaxDate(l) == CHOOSE d \in Range(l) : \A e \in Range(l) : e <= d

\* C13: a date_string equal in any letter case to "head", "last" or "latest"
\* has the greatest date of the entry index as its base, and when the index
\* is empty (and only then) the pass prints the "No existing journal entry
\* found!" line, appends no date and the loop goes on.
C13_KeywordIsMaximum ==
    [][(PassTaken /\ KeywordAsked')
       => IF Index = <<>>
          THEN /\ parsed_dates' = parsed_dates
               /\ stderr' = stderr \o <<NoEntryMsg>>
               /\ pd_result' = Pending
          ELSE locals'.base = Returned(MaxDate(Index))]_vars

\* C14: the base date of a keyword is the latest entry shifted by
\* late_night_date_offset, as the base date of a non-positive integer is
\* today shifted by it.
C14_KeywordShifted ==
    (KeywordAsked /\ locals.base.kind = "return")
    => locals.base.val = LastOf(Index) + late_night_date_offset

\* C15: every pass leaves parse_dates running (no exception ends the call)
\* and either appends one date behind the dates of the earlier arguments,
\* which it leaves as they are, or appends nothing and prints a diagnostic.
C15_FailuresLocal ==
    [][PassTaken
       => /\ pd_result' = Pending
          /\ \/ /\ Len(parsed_dates') = Len(parsed_dates) + 1
                /\ Take(parsed_dates', Len(parsed_dates)) = parsed_dates
             \/ /\ parsed_dates' = parsed_dates
                /\ Len(stderr') > Len(stderr)]_vars
(***************************************************************************)
(* Specification SpecTimestamp: up to MaxCalls write_timestamp calls on    *)
(* one entry_path, where at first there is no file or a file holding some  *)
(* text, with or without a date at its start.                              *)
(***************************************************************************)
GenericTexts == UNION {[1..n -> {"a", NL}] : n \in 0..MaxTextLen}

PriorTexts == GenericTexts \cup {FormatDate(0) \o t : t \in GenericTexts}

\* the instants of the calls: two days, a morning and the last minute of a day
StampDates == {0, 1}
StampMinutes == {9 * 60 + 5, 23 * 60 + 59}
Instants == [date : StampDates, minute : StampMinutes]

InitTimestamp ==
    /\ entry_file \in {Absent} \cup {FileOf(t) : t \in PriorTexts}
    /\ ts_initial = entry_file
    /\ ts_log = <<>>
    /\ IdleClosest /\ IdleOffsets /\ IdleEnv /\ IdleParseDates /\ IdleAncestor
    /\ IdleMain /\ IdleIndex

CallWriteTimestamp(this_datetime) ==
    /\ Len(ts_log) < MaxCalls
    /\ entry_file' = WriteTimestamp(entry_file, this_datetime)
    /\ ts_log' = ts_log \o <<this_datetime>>
    /\ UNCHANGED <<ts_initial, closest_vars, oa_vars, env_vars, pd_vars, anc_vars,
                   main_vars, idx_vars>>

NextTimestamp == \E this_datetime \in Instants : CallWriteTimestamp(this_datetime)

SpecTimestamp == InitTimestamp /\ [][NextTimestamp]_vars

(***************************************************************************)
(* Claims about write_timestamp                                            *)
(***************************************************************************)
\* text.split("\n")
RECURSIVE SplitLines(_)
SplitLines(text) ==
    IF \A k \in DOMAIN text : text[k] # NL THEN <<text>>
    ELSE LET k == CHOOSE i \in DOMAIN text :
                      text[i] = NL /\ \A j \in 1..(i - 1) : text[j] # NL
         IN  <<Take(text, k - 1)>> \o SplitLines(Drop(text, k))

FileLines == SplitLines(entry_file.text)

\* the date and time texts of a call
DateText(this_datetime) == FormatDate(this_datetime.date)
TimeText(this_datetime) == FormatTime(this_datetime.minute)

\* a step that is a write_timestamp call
StampTaken == Len(ts_log') = Len(ts_log) + 1

\* C17: write_timestamp on a path where no file exists creates the file
\* with exactly the date line and the time line, each ended by a newline.
C17_NewFileTwoLines ==
    (ts_initial = Absent /\ Len(ts_log) = 1)
    => entry_file =
           FileOf(DateText(ts_log[1]) \o <<NL>> \o TimeText(ts_log[1]) \o <<NL>>)

\* the file of a first call in the morning of the second day
C17_Witness ==
    /\ ts_initial = Absent
    /\ ts_log = <<[date |-> 1, minute |-> 9 * 60 + 5]>>
    /\ FileLines = <<FormatDate(1), FormatTime(9 * 60 + 5), <<>>>>

\* every call so far was for the same calendar date
SameDateCalls == \A k \in DOMAIN ts_log : ts_log[k].date = ts_log[1].date

\* C18: after k >= 1 calls for instants of one calendar date on a path
\* where no file was, exactly one line of the file holds the date (it is the
\* date line) and exactly k lines are time lines.
C18_OneDateManyTimes ==
    (ts_initial = Absent /\ Len(ts_log) >= 1 /\ SameDateCalls)
    => /\ Cardinality({k \in DOMAIN FileLines :
                          Contains(FileLines[k], DateText(ts_log[1]))}) = 1
       /\ FileLines[1] = DateText(ts_log[1])
       /\ Cardinality({k \in DOMAIN FileLines :
                          FileLines[k] \in {FormatTime(m) : m \in StampMinutes}})
              = Len(ts_log)

\* MaxCalls calls on one day, not all in the same minute
C18_Witness ==
    /\ ts_initial = Absent
    /\ Len(ts_log) = MaxCalls
    /\ SameDateCalls
    /\ ts_log[1].minute # ts_log[2].minute

\* C19: after a call on an existing file, whatever its text was, the text
\* ends with the time line followed by exactly one empty line.
C19_EndsWithOneBlankLine ==
    [][(StampTaken /\ entry_file.kind = "file")
       => EndsWith(entry_file'.text,
                   <<NL>> \o TimeText(LastOf(ts_log')) \o <<NL, NL>>)]_vars

\* a file that ended in two newlines, after its first call
C19_Witness ==
    /\ ts_initial = FileOf(<<"a", NL, NL>>)
    /\ Len(ts_log) = 1
    /\ entry_file.text =
           <<"a", NL, NL>> \o DateText(ts_log[1]) \o <<NL>>
               \o TimeText(ts_log[1]) \o <<NL, NL>>
(***************************************************************************)
(* open_entry and the files below journal_path.  A path is the text after  *)
(* journal_path; tree maps the paths where something exists to a directory *)
(* or to a file with its text.                                             *)
(***************************************************************************)
DirNode == [kind |-> "dir"]

\* what is at path p
NodeAt(t, p) == IF p \in DOMAIN t THEN t[p] ELSE Absent

\* os.path.join(journal_path, str(date.year))
YearDirPath(date) == YearString(YearOf(date))

\* os.path.join(year_dir_path, date.strftime("%Y-%m-%d") + ".txt")
EntryPath(date) == YearDirPath(date) \o <<"/">> \o EntryFileName(date)

DoesNotExistMsg(entry_path) == Msg("%s does not exist!", entry_path)

\* mutant of OpenSteps: the editor is started before the timestamp is written
OpenSteps_editor_first(t, date, editor, do_timestamp, stamp) ==
    LET year_dir_path == YearDirPath(date)
        entry_path == EntryPath(date)
        has_dir == NodeAt(t, year_dir_path).kind = "dir"
        made == IF has_dir THEN t ELSE (year_dir_path :> DirNode) @@ t
        made_events ==
            IF has_dir THEN <<>> ELSE <<[op |-> "makedirs", path |-> year_dir_path]>>
        entry_node == NodeAt(made, entry_path)
    IN  IF NodeAt(t, year_dir_path).kind = "file"
        THEN [tree |-> t, events |-> <<>>, err |-> <<>>,
              out |-> Raised("FileExistsError")]
        ELSE IF do_timestamp /\ entry_node.kind = "dir"
        THEN [tree |-> made, events |-> made_events, err |-> <<>>,
              out |-> Raised("FileExistsError")]
        ELSE [tree |-> IF do_timestamp
                       THEN (entry_path :> WriteTimestamp(entry_node, stamp)) @@ made
                       ELSE made,
              events |->
                  made_events
                  \o <<[op |-> "Popen", args |-> <<editor, entry_path>>]>>
                  \o (IF do_timestamp
                      THEN <<[op |-> "write_timestamp", path |-> entry_path,
                              this_datetime |-> stamp]>>
                      ELSE <<>>),
              err |-> <<>>,
              out |-> Pending]

\* Lines 486-495 up to the start of the editor: the tree they leave, the
\* calls they make in order, and Pending while the editor runs or the
\* exception that os.makedirs or open(entry_path, "x") raises.
OpenSteps(t, date, editor, do_timestamp, stamp) ==
    LET year_dir_path == YearDirPath(date)
        entry_path == EntryPath(date)
        has_dir == NodeAt(t, year_dir_path).kind = "dir"
        made == IF has_dir THEN t ELSE (year_dir_path :> DirNode) @@ t
        made_events ==
            IF has_dir THEN <<>> ELSE <<[op |-> "makedirs", path |-> year_dir_path]>>
        entry_node == NodeAt(made, entry_path)
    IN  IF NodeAt(t, year_dir_path).kind = "file"
        THEN [tree |-> t, events |-> <<>>, err |-> <<>>,
              out |-> Raised("FileExistsError")]
        ELSE IF do_timestamp /\ entry_node.kind = "dir"
        THEN [tree |-> made, events |-> made_events, err |-> <<>>,
              out |-> Raised("FileExistsError")]
        ELSE [tree |-> IF do_timestamp
                       THEN (entry_path :> WriteTimestamp(entry_node, stamp)) @@ made
                       ELSE made,
              events |->
                  made_events
                  \o (IF do_timestamp
                      THEN <<[op |-> "write_timestamp", path |-> entry_path,
                              this_datetime |-> stamp]>>
                      ELSE <<>>)
                  \o <<[op |-> "Popen", args |-> <<editor, entry_path>>]>>,
              err |-> <<>>,
              out |-> Pending]

\* mutant of OpenEntry: read mode is not looked at
OpenEntry_ignores_read_mode(t, date, editor, do_timestamp, in_read_mode, stamp) ==
    OpenSteps(t, date, editor, do_timestamp, stamp)

\* open_entry up to the start of the editor; stamp is the default value of
\* the parameter this_datetime of write_timestamp, which line 492 does not pass
OpenEntry(t, date, editor, do_timestamp, in_read_mode, stamp) ==
    IF in_read_mode /\ NodeAt(t, EntryPath(date)) = Absent
    THEN [tree |-> t, events |-> <<>>,
          err |-> <<DoesNotExistMsg(EntryPath(date))>>,
          out |-> Returned("None")]
    ELSE OpenSteps(t, date, editor, do_timestamp, stamp)

(***************************************************************************)
(* main, from line 58 on: the dates of the command line                    *)
(***************************************************************************)
\* lines 61-65
LatenightDateOffset(now, config) ==
    IF now.minute \div 60 < config.hours_past_midnight_included_in_date
    THEN 0 - 1 ELSE 0

\* One pass of the for loop of lines 71-102: the date appended, the loop
\* going on after the not-a-valid-date line, or the OverflowError of the
\* sum of line 82, which no except clause of main catches.
MainResolve(datestring, tdy, lno) ==
    LET offset == PyInt(datestring)
    IN  IF offset.kind = "return" /\ offset.val <= 0
        THEN OffsetDate(tdy, offset.val, lno)
        ELSE LET parsed == DateutilParse(datestring, tdy)
             IN  IF parsed.kind = "return" THEN Returned(parsed.val + lno)
                 ELSE Continued(<<InvalidMsg(datestring)>>)

\* the for loop of lines 71-102: the dates, the lines printed, and the
\* exception that ends the loop or "none"
RECURSIVE MainDatesLoop(_, _, _)
MainDatesLoop(datestrings, tdy, lno) ==
    IF datestrings = <<>> THEN [dates |-> <<>>, err |-> <<>>, exc |-> "none"]
    ELSE LET this == MainResolve(datestrings[1], tdy, lno)
         IN  IF this.kind = "raise"
             THEN [dates |-> <<>>, err |-> <<>>, exc |-> this.exc]
             ELSE LET rest == MainDatesLoop(Drop(datestrings, 1), tdy, lno)
                  IN  [dates |-> (IF this.kind = "return" THEN <<this.val>> ELSE <<>>)
                                     \o rest.dates,
                       err |-> (IF this.kind = "continue" THEN this.err ELSE <<>>)
                                   \o rest.err,
                       exc |-> rest.exc]

NoValidDatesMsg == Msg("No valid dates given! Aborting.", <<>>)

\* lines 110-113
WriteTimestampFlag ==
    runtime_args.timestamp
        \/ (config_dict.write_timestamps_by_default /\ ~runtime_args.no_timestamp)

\* lines 116-119
ReadMode ==
    runtime_args.dates # <<>>
        /\ ~config_dict.create_new_entries_when_specifying_dates

\* the exit code of the process: that of sys.exit, or 1 after a traceback
ExitCode == IF exit_status.kind = "raise" THEN 1 ELSE exit_status.val

(***************************************************************************)
(* Specification SpecMain: one run of main from line 58 to its exit, with  *)
(* the editor sessions of its open_entry calls.                            *)
(***************************************************************************)
\* the date strings of the command line: today, yesterday, a date, text
\* that is no date, an offset that leads before datetime.datetime.min
MainDateStrings ==
    {Zero, <<"-", "1">>, FirstDate, <<"h">>,
     <<"-", "8", "0", "0", "0", "0", "0">>}

RuntimeArgs ==
    [dates : UNION {[1..n -> MainDateStrings] : n \in 0..MaxArgs},
     timestamp : BOOLEAN, no_timestamp : {FALSE}]
    \cup [dates : {<<>>, <<Zero>>}, timestamp : {FALSE}, no_timestamp : {TRUE}]

Configs ==
    [editor : {"vi"},
     hours_past_midnight_included_in_date : {0, 4},
     write_timestamps_by_default : BOOLEAN,
     create_new_entries_when_specifying_dates : BOOLEAN]

\* the run starts at 01:05
StartClocks == [date : Todays, minute : {65}]

\* the dates whose entry can be there before the run
TreeDates == {0} \cup UNION {{d, d - 1} : d \in Todays}

OldText == <<"a", NL>>

\* entry files of the dates S in their year directories, and the year
\* directories E
TreeOf(S, E) ==
    [p \in {EntryPath(d) : d \in S} \cup {YearDirPath(d) : d \in S} \cup E |->
        IF p \in {EntryPath(d) : d \in S} THEN FileOf(OldText) ELSE DirNode]

\* the trees before the run, among them one where the path of today's year
\* directory is a regular file
Trees ==
    {TreeOf(S, E) : S \in SUBSET TreeDates, E \in SUBSET YearNames}
    \cup {(YearDirPath(d) :> FileOf(<<>>)) : d \in Todays}

InitMain ==
    /\ runtime_args \in RuntimeArgs
    /\ config_dict \in Configs
    /\ clock \in StartClocks
    /\ load_time = clock
    /\ tree \in Trees
    /\ pc = "start"
    /\ main_dates = <<>>
    /\ opened = 0
    /\ events = <<>>
    /\ error_stream = <<>>
    /\ exit_status = Pending
    /\ IdleClosest /\ IdleOffsets /\ IdleEnv /\ IdleParseDates /\ IdleAncestor
    /\ IdleTimestamp /\ IdleIndex

\* lines 58-107
MainBuildDates ==
    /\ pc = "start"
    /\ \E lno \in {LatenightDateOffset(clock, config_dict)} :
         IF runtime_args.dates # <<>>
         THEN \E loop \in {MainDatesLoop(runtime_args.dates, clock.date, lno)} :
                IF loop.exc # "none"
                THEN /\ exit_status' = Raised(loop.exc)
                     /\ pc' = "exited"
                     /\ UNCHANGED <<main_dates, error_stream>>
                ELSE IF loop.dates = <<>>
                THEN /\ error_stream' = error_stream \o loop.err \o <<NoValidDatesMsg>>
                     /\ exit_status' = Returned(1)
                     /\ pc' = "exited"
                     /\ UNCHANGED main_dates
                ELSE /\ error_stream' = error_stream \o loop.err
                     /\ main_dates' = loop.dates
                     /\ pc' = "loop"
                     /\ UNCHANGED exit_status
         ELSE /\ main_dates' = <<clock.date + lno>>
              /\ pc' = "loop"
              /\ UNCHANGED <<error_stream, exit_status>>
    /\ UNCHANGED <<runtime_args, config_dict, clock, load_time, tree, opened, events,
                   closest_vars, oa_vars, env_vars, pd_vars, anc_vars, ts_vars,
                   idx_vars>>

\* lines 122-129, one open_entry call up to its return, the start of the
\* editor or the exception that leaves main
MainOpenEntry ==
    /\ pc = "loop"
    /\ opened < Len(main_dates)
    /\ \E call \in {OpenEntry(tree, main_dates[opened + 1], config_dict.editor,
                              WriteTimestampFlag, ReadMode, load_time)} :
         /\ tree' = call.tree
         /\ events' = events \o call.events
         /\ error_stream' = error_stream \o call.err
         /\ IF call.out.kind = "raise"
            THEN exit_status' = call.out /\ pc' = "exited" /\ UNCHANGED opened
            ELSE IF call.out.kind = "return"
            THEN pc' = "loop" /\ opened' = opened + 1 /\ UNCHANGED exit_status
            ELSE pc' = "editor" /\ UNCHANGED <<opened, exit_status>>
    /\ UNCHANGED <<runtime_args, config_dict, clock, load_time, main_dates,
                   closest_vars, oa_vars, env_vars, pd_vars, anc_vars, ts_vars,
                   idx_vars>>

\* how long an editor session takes: a minute, or until past midnight
SessionMinutes == {1, 23 * 60}

\* the clock so many minutes later
Later(now, minutes) ==
    [date |-> now.date + ((now.minute + minutes) \div (24 * 60)),
     minute |-> (now.minute + minutes) % (24 * 60)]

\* line 495: the editor exits and wait() returns; the user has saved the
\* entry with a letter more, or has left the file as it was
EditorExits(saved, minutes) ==
    /\ pc = "editor"
    /\ \E entry_path \in {EntryPath(main_dates[opened + 1])} :
         tree' = IF saved
                 THEN (entry_path :>
                          FileOf((IF NodeAt(tree, entry_path).kind = "file"
                                  THEN tree[entry_path].text ELSE <<>>) \o <<"a">>))
                      @@ tree
                 ELSE tree
    /\ clock' = Later(clock, minutes)
    /\ events' = events \o <<[op |-> "wait"]>>
    /\ opened' = opened + 1
    /\ pc' = "loop"
    /\ UNCHANGED <<runtime_args, config_dict, load_time, main_dates, error_stream,
                   exit_status,
                   closest_vars, oa_vars, env_vars, pd_vars, anc_vars, ts_vars,
                   idx_vars>>

\* line 132
MainExit ==
    /\ pc = "loop"
    /\ opened = Len(main_dates)
    /\ exit_status' = Returned(0)
    /\ pc' = "exited"
    /\ UNCHANGED <<runtime_args, config_dict, clock, load_time, tree, main_dates,
                   opened, events, error_stream,
                   closest_vars, oa_vars, env_vars, pd_vars, anc_vars, ts_vars,
                   idx_vars>>

NextMain ==
    \/ MainBuildDates
    \/ MainOpenEntry
    \/ \E saved \in BOOLEAN, minutes \in SessionMinutes : EditorExits(saved, minutes)
    \/ MainExit

SpecMain == InitMain /\ [][NextMain]_vars

(***************************************************************************)
(* Claims about main and open_entry                                        *)
(***************************************************************************)
\* the positions of the date strings that main makes a date of
ResolvedArgs ==
    {k \in DOMAIN runtime_args.dates :
        MainResolve(runtime_args.dates[k], clock.date,
                    LatenightDateOffset(clock, config_dict)).kind = "return"}

\* C16: when date strings are given and none of them resolves to a date,
\* main ends with a non-zero exit code before it opens an entry, makes a
\* directory or a file, or starts the editor; when at least one resolves,
\* the strings that do not are not fatal and main goes on to open the dates
\* of the others.
C16_FatalOnlyWhenNoneResolves ==
    [][(pc = "start" /\ runtime_args.dates # <<>>)
       => IF ResolvedArgs = {}
          THEN /\ pc' = "exited"
               /\ ExitCode' # 0
               /\ tree' = tree
               /\ events' = <<>>
          ELSE /\ pc' = "loop"
               /\ Len(main_dates') = Cardinality(ResolvedArgs)]_vars

\* the step is an open_entry call in read mode for a date without a file
ReadOfMissing ==
    /\ pc = "loop"
    /\ opened < Len(main_dates)
    /\ ReadMode
    /\ NodeAt(tree, EntryPath(main_dates[opened + 1])) = Absent

\* C20: open_entry in read mode for a date whose entry file does not exist
\* prints the does-not-exist line and returns: the tree is as it was (no
\* year directory made, no file made or changed, no timestamp), no call
\* is made and the editor is not started.
C20_ReadOfMissingHasNoEffect ==
    [][ReadOfMissing
       => /\ error_stream' =
                 error_stream \o <<DoesNotExistMsg(EntryPath(main_dates[opened + 1]))>>
          /\ tree' = tree
          /\ events' = events
          /\ pc' = "loop"
          /\ opened' = opened + 1]_vars

\* a run with timestamps asked for that read two dates, the first without
\* an entry and without a year directory, and is over
C20_Witness ==
    /\ pc = "exited"
    /\ ReadMode
    /\ WriteTimestampFlag
    /\ Len(main_dates) = 2
    /\ error_stream = <<DoesNotExistMsg(EntryPath(main_dates[1]))>>
    /\ YearDirPath(main_dates[1]) \notin DOMAIN tree
    /\ Len(events) = 3
    /\ events[2].op = "Popen"
    /\ events[2].args = <<"vi", EntryPath(main_dates[2])>>

\* the step is an open_entry call that gets as far as the editor
EditorStarted == pc = "loop" /\ pc' = "editor"

\* the entry path of the open_entry call that is next or under way
CurrentEntryPath == EntryPath(main_dates[opened + 1])

\* C28: a write_timestamp call on an existing entry file leaves the text
\* the file had as the start of its new text, and leaves every other path
\* below journal_path as it was.
C28_AppendOnly ==
    [][(EditorStarted /\ WriteTimestampFlag
            /\ NodeAt(tree, CurrentEntryPath).kind = "file")
       => /\ NodeAt(tree', CurrentEntryPath).kind = "file"
          /\ Take(tree'[CurrentEntryPath].text, Len(tree[CurrentEntryPath].text))
                 = tree[CurrentEntryPath].text
          /\ Len(tree'[CurrentEntryPath].text) > Len(tree[CurrentEntryPath].text)
          /\ \A p \in (DOMAIN tree \cup DOMAIN tree') \ {CurrentEntryPath} :
                 NodeAt(tree', p) = NodeAt(tree, p)]_vars

\* an entry that was there before the run, stamped while another entry
\* file lies beside it, with the editor running
C28_Witness ==
    /\ pc = "editor"
    /\ WriteTimestampFlag
    /\ events[Len(events) - 1].op = "write_timestamp"
    /\ Take(tree[CurrentEntryPath].text, Len(OldText)) = OldText
    /\ Len(tree[CurrentEntryPath].text) > Len(OldText)
    /\ \E p \in DOMAIN tree : p # CurrentEntryPath /\ tree[p] = FileOf(OldText)

\* the text that write_timestamp appends in a step
AppendedNow == Drop(entry_file'.text, Len(entry_file.text))

\* the newlines at the start of a text
RECURSIVE LeadingNewlines(_)
LeadingNewlines(text) ==
    IF text # <<>> /\ text[1] = NL
    THEN <<NL>> \o LeadingNewlines(Drop(text, 1)) ELSE <<>>

\* C30: when write_timestamp appends to an existing file that is not empty,
\* an empty line lies between the text that was there and the first
\* appended date or time line: that line is preceded by two newlines.
C30_EmptyLineBefore ==
    [][(StampTaken /\ entry_file.kind = "file" /\ entry_file.text # <<>>)
       => EndsWith(entry_file.text \o LeadingNewlines(AppendedNow), <<NL, NL>>)]_vars

(***************************************************************************)
(* Claims about chains of ancestor operators                               *)
(***************************************************************************)
\* c is a chain: a sequence of operators, each a "^" or a "~" with an integer
RECURSIVE IsChain(_)
IsChain(c) ==
    \/ c = <<>>
    \/ EndsWithCaret(c) /\ IsChain(DropLast(c, 1))
    \/ IsBaseTildeInt(c) /\ IsChain(BaseOf(c))

\* the number of carets of a chain plus the sum of its integers
RECURSIVE ChainSum(_)
ChainSum(c) ==
    IF c = <<>> THEN 0
    ELSE IF EndsWithCaret(c) THEN ChainSum(DropLast(c, 1)) + 1
    ELSE ChainSum(BaseOf(c)) + IntOf(c)

\* the ways to read the input as a base that ends in no operator (no "^"
\* and no "~" with an integer) and a chain
PlainSplits ==
    {k \in 0..Len(oa_input) :
        /\ ~EndsWithCaret(Take(oa_input, k))
        /\ ~IsBaseTildeInt(Take(oa_input, k))
        /\ IsChain(Drop(oa_input, k))}

\* C26: for every base that ends in no ancestor operator, followed by any
\* chain of "^" and "~N" operators, parse_ancestor_offsets returns the base
\* and the number of carets plus the sum of the N.
C26_ChainSum ==
    oa_result # Pending
    => \A k \in PlainSplits :
           oa_result = Returned(<<Take(oa_input, k), ChainSum(Drop(oa_input, k))>>)

\* the string ends in a "~" or in "~-", which is no complete operator
IncompleteTail(s) == EndsWith(s, <<"~">>) \/ EndsWith(s, <<"~", "-">>)

\* C27: parse_ancestor_offsets ends with a (string, integer) result for
\* every input: it never raises, every pass of the loop that goes on makes
\* the string shorter, and a string that ends in a bare "~" or in "~-" is
\* returned as it is with the offset counted so far.
C27_AlwaysReturns ==
    [][/\ (oa_result = Pending /\ oa_result' # Pending) => oa_result'.kind = "return"
       /\ oa_date_arg' # oa_date_arg => Len(oa_date_arg') < Len(oa_date_arg)
       /\ (oa_result = Pending /\ IncompleteTail(oa_date_arg))
              => oa_result' = Returned(<<oa_date_arg, oa_offset>>)]_vars

(***************************************************************************)
(* Claims about "@" with an ancestor chain                                 *)
(***************************************************************************)
\* C29: when an argument has the "@" prefix and a chain whose offset is not
\* zero, its base resolves to a date and the entry index is not empty, the
\* offset is counted from the closest existing entry: the pass appends the
\* entry at that position, or prints the "Ancestor ... does not exist!"
\* line when the position is out of range, and never the "Base of ..." line.
C29_ClosestBeforeAncestor ==
    [][(/\ PassTaken
        /\ ClosestAsked'
        /\ locals'.offsets.val[2] # 0
        /\ Index # <<>>)
       => /\ ReachedAncestor'
          /\ AncestorBase' = FindClosestDate(Index, locals'.base.val)
          /\ AncestorBase' \in Range(Index)
          /\ pd_result' = Pending
          /\ IF RequestedPosition' \in Positions
             THEN /\ parsed_dates' = parsed_dates \o <<Index[RequestedPosition' + 1]>>
                  /\ stderr' = stderr
             ELSE /\ parsed_dates' = parsed_dates
                  /\ stderr' = stderr \o <<AncestorMsg(original_date_string')>>]_vars

\* "@0^" on a day without an entry gave the entry before the closest one
C29_Witness ==
    /\ args_done = 1
    /\ original_date_string = <<"@">> \o Zero \o <<"^">>
    /\ locals.base.kind = "return"
    /\ locals.base.val \notin Range(Index)
    /\ Len(Index) >= 2
    /\ parsed_dates = <<Index[Len(Index) - 1]>>
    /\ stderr = <<>>

(***************************************************************************)
(* Specification SpecIndex: one get_all_entry_dates call on a journal_path *)
(* that does not exist, is a regular file, or is a directory with children *)
(* and files of well-formed and other names.                               *)
(***************************************************************************)
RootDir(children) == [kind |-> "dir", children |-> children]

\* os.listdir(journal_path) of line 58 raises for a path that is no
\* directory, and the exception leaves get_all_entry_dates
GetAllEntryDatesAt(node) ==
    IF node.kind = "absent" THEN Raised("FileNotFoundError")
    ELSE IF node.kind = "file" THEN Raised("NotADirectoryError")
    ELSE GetAllEntryDates(node.children)

\* the names of children: the years, a name that goes on after four
\* digits, a name without digits
ChildNames == YearNames \cup {YearString(0) \o <<"a">>, <<"h">>}

\* the names of files in a child: the entries, and for the first date a
\* backup copy and a name with another character for the dot; a name that
\* has the form of a date and is none; a name without digits
WellFormedNames == {EntryFileName(d) : d \in EntryDates}

OtherNames ==
    {EntryFileName(0) \o <<".", "b", "a", "k">>,
     FormatDate(0) \o <<"-", "t", "x", "t">>,
     YearString(0) \o <<"-", "1", "3", "-", "4", "5", ".", "t", "x", "t">>,
     <<"h">>}

\* The children of a journal_path: status says of every name whether a
\* directory, a regular file or nothing has it, and P holds a pair of a
\* directory and a name for every file in a directory.
ChildrenOf(status, P) ==
    [c \in {n \in ChildNames : status[n] # "absent"} |->
        IF status[c] = "file" THEN [type |-> "file"]
        ELSE Dir({q[2] : q \in {r \in P : r[1] = c}})]

Statuses == [ChildNames -> {"absent", "file", "dir"}]

\* the files of a journal_path whose children are as status says: up to
\* MaxFiles pairs of a directory and a name
FileSets(status) ==
    LET pairs == {n \in ChildNames : status[n] = "dir"}
                     \X (WellFormedNames \cup OtherNames)
    IN  UNION {{Range(f) : f \in [1..k -> pairs]} : k \in 0..MaxFiles}

InitIndex ==
    /\ \/ root \in {Absent, FileOf(<<>>)}
       \/ \E status \in Statuses :
              \E P \in FileSets(status) : root = RootDir(ChildrenOf(status, P))
    /\ index_result = Pending
    /\ IdleClosest /\ IdleOffsets /\ IdleEnv /\ IdleParseDates /\ IdleAncestor
    /\ IdleTimestamp /\ IdleMain

CallGetAllEntryDates ==
    /\ index_result = Pending
    /\ index_result' = GetAllEntryDatesAt(root)
    /\ UNCHANGED <<root, closest_vars, oa_vars, env_vars, pd_vars, anc_vars, ts_vars,
                   main_vars>>

NextIndex == CallGetAllEntryDates

SpecIndex == InitIndex /\ [][NextIndex]_vars

(***************************************************************************)
(* Claims about the entry index                                            *)
(***************************************************************************)
\* Every child whose name starts with four digits is a directory, and every
\* file in such a directory is named YYYY-MM-DD.txt for a date.
AcceptedLayout ==
    /\ root.kind = "dir"
    /\ \A c \in DOMAIN root.children :
           MatchesYear(c)
           => /\ root.children[c].type = "dir"
              /\ root.children[c].files \subseteq WellFormedNames

\* C24: for every layout of year directories (names that start with four
\* digits) holding files named YYYY-MM-DD.txt, get_all_entry_dates returns
\* a strictly ascending list: sorted overall and without a date twice.
C24_IndexStrictlyAscending ==
    (index_result # Pending /\ AcceptedLayout)
    => /\ index_result.kind = "return"
       /\ IsStrictlyAscending(index_result.val)

\* C25: the scan raises only when journal_path does not exist or is no
\* directory; below a directory, children and files of other names (a
\* regular file whose name starts with four digits, a backup copy of an
\* entry, a name of the form of a date that is none) are left out and the
\* dates of the well-formed entry files are returned.
C25_MalformedIgnored ==
    (index_result # Pending /\ root.kind = "dir")
    => /\ index_result.kind = "return"
       /\ Range(index_result.val) =
              {d \in EntryDates :
                  \E c \in DOMAIN root.children :
                      /\ MatchesYear(c)
                      /\ root.children[c].type = "dir"
                      /\ EntryFileName(d) \in root.children[c].files}

(***************************************************************************)
(* Claims about the steps of open_entry                                    *)
(***************************************************************************)
\* the calls that a step adds to events
NewEvents == Drop(events', Len(events))

\* the positions of the calls of one kind among the new ones
NewAt(op) == {k \in DOMAIN NewEvents : NewEvents[k].op = op}

\* the step is an open_entry call that goes past the read-mode test
OpenPastReadTest ==
    /\ pc = "loop"
    /\ opened < Len(main_dates)
    /\ ~(ReadMode /\ NodeAt(tree, CurrentEntryPath) = Absent)

\* C21: an open_entry call that does not return at the read-mode test makes
\* the year directory, when there is none, before it writes a timestamp;
\* the timestamp, when asked for, is in the entry file before the editor is
\* started; the editor is started once, with the entry path as its only
\* argument; and the call returns (the loop goes on) only when the editor
\* has exited.
C21_StepsInOrder ==
    [][/\ (OpenPastReadTest /\ pc' = "editor")
          => /\ NodeAt(tree', YearDirPath(main_dates[opened + 1])) = DirNode
             /\ Cardinality(NewAt("makedirs")) =
                    IF NodeAt(tree, YearDirPath(main_dates[opened + 1])) = DirNode
                    THEN 0 ELSE 1
             /\ Cardinality(NewAt("write_timestamp")) =
                    IF WriteTimestampFlag THEN 1 ELSE 0
             /\ \A k \in NewAt("write_timestamp") :
                    /\ NewEvents[k].path = CurrentEntryPath
                    /\ NodeAt(tree', CurrentEntryPath).kind = "file"
             /\ \A k \in NewAt("makedirs") : \A j \in NewAt("write_timestamp") : k < j
             /\ NewAt("Popen") = {Len(NewEvents)}
             /\ NewEvents[Len(NewEvents)].args =
                    <<config_dict.editor, CurrentEntryPath>>
             /\ opened' = opened
       /\ (OpenPastReadTest /\ pc' # "editor") => NewAt("Popen") = {}
       /\ pc = "editor"
          => /\ NewEvents = <<[op |-> "wait"]>>
             /\ opened' = opened + 1
             /\ pc' = "loop"]_vars

\* an entry of a year without a directory, opened with a timestamp: the
\* directory is made, the timestamp written, the editor started and left
C21_Witness ==
    /\ pc = "loop"
    /\ opened = 1
    /\ Len(events) = 4
    /\ events[1] = [op |-> "makedirs", path |-> YearDirPath(main_dates[1])]
    /\ events[2].op = "write_timestamp"
    /\ events[3] = [op |-> "Popen", args |-> <<"vi", EntryPath(main_dates[1])>>]
    /\ events[4] = [op |-> "wait"]

\* C22: the timestamp that open_entry writes is that of the clock when it
\* is written, whatever the time the editor sessions before it took.
C22_StampIsNow ==
    [][(OpenPastReadTest /\ pc' = "editor")
       => \A k \in NewAt("write_timestamp") : NewEvents[k].this_datetime = clock]_vars

\* the exception that the next open_entry call raises, or "none"
OpenRaises ==
    LET call == OpenEntry(tree, main_dates[opened + 1], config_dict.editor,
                          WriteTimestampFlag, ReadMode, load_time)
    IN  IF call.out.kind = "raise" THEN call.out.exc ELSE "none"

\* C23: when os.makedirs or write_timestamp fails for one date, only that
\* open_entry call is lost: main goes on to open the dates that remain.
C23_FailureLocal ==
    [][(pc = "loop" /\ opened < Len(main_dates) /\ OpenRaises # "none")
       => /\ pc' = "loop"
          /\ opened' = opened + 1
          /\ exit_status' = Pending]_vars
====
